---------------------------- MODULE Spec2Model ----------------------------
(***************************************************************************)
(* A model of the PLONK circuit builder and preprocessing of src/plonk.rs: *)
(* the constraint table, the wire permutation, the roots-of-unity domain,  *)
(* sigma-star, the permutation / selector / blinder polynomials and the    *)
(* PreprocessedInput returned by setup.                                    *)
(*                                                                         *)
(* bls12_381::Scalar is a prime field of about 2^255 elements whose        *)
(* multiplicative group has 2-adicity 32 and generator 7.  TLC computes on *)
(* 32-bit integers, so Scalar is modelled by the prime field of MODULUS    *)
(* elements, which has the same shape on a smaller scale: generator 7,     *)
(* 2-adicity TWO_ADICITY, ROOT_OF_UNITY = 7^((MODULUS-1)/2^TWO_ADICITY),   *)
(* and K1 = 7, K2 = 13, K2/K1 outside the 2-power subgroup (so that the    *)
(* three cosets of the domain are disjoint, as in the real field).  The    *)
(* source's literal 32 is TWO_ADICITY here.  Vectors are sequences: the    *)
(* Rust index i is the sequence index i + 1 (see At).                      *)
(***************************************************************************)
EXTENDS Integers, Sequences, FiniteSets, TLC

\* ------------------------------------------------------------------ bounds
\* The number of calls made on one circuit.
MaxCalls == 4
\* connect_wires draws its two wire ids from 0 .. MaxWire.
MaxWire == 3

\* ------------------------------------------------------- the Scalar field
MODULUS == 15361
TWO_ADICITY == 10
ROOT_OF_UNITY == 4989

K1 == 7
K2 == 13

Scalar == 0 .. (MODULUS - 1)
FAdd(a, b) == (a + b) % MODULUS
FNeg(a) == (MODULUS - a) % MODULUS
FSub(a, b) == FAdd(a, FNeg(b))
FMul(a, b) == (a * b) % MODULUS
FOne == 1
FZero == 0

\* Scalar::pow_vartime with a one-limb exponent: square and multiply.
RECURSIVE pow_vartime(_, _)
pow_vartime(base, exp) ==
    IF exp = 0 THEN FOne
    ELSE IF exp % 2 = 0 THEN pow_vartime(FMul(base, base), exp \div 2)
    ELSE FMul(base, pow_vartime(FMul(base, base), exp \div 2))

\* Scalar::invert: None on zero (the caller unwraps), else the inverse.
CanInvert(a) == a # FZero
invert(a) == pow_vartime(a, MODULUS - 2)

\* ------------------------------------------------------------- vectors
At(vec, i) == vec[i + 1]
SetAt(vec, i, x) == [vec EXCEPT ![i + 1] = x]
Filled(x, n) == [k \in 1 .. n |-> x]

\* ---------------------------------------- crate::polynomial (collaborator)
\* Dense coefficient vectors, lowest degree first.
PolyZero(n) == Filled(FZero, n)

Coef(p, k) == IF k <= Len(p) THEN p[k] ELSE FZero

PolyAdd(p, q) ==
    [k \in 1 .. (IF Len(p) >= Len(q) THEN Len(p) ELSE Len(q)) |->
        FAdd(Coef(p, k), Coef(q, k))]

PolyScale(p, s) == [k \in 1 .. Len(p) |-> FMul(p[k], s)]

RECURSIVE ConvSum(_, _, _, _)
ConvSum(p, q, k, i) ==
    IF i > Len(p) THEN FZero
    ELSE FAdd(IF k - i + 1 >= 1 /\ k - i + 1 <= Len(q)
                 THEN FMul(p[i], q[k - i + 1]) ELSE FZero,
              ConvSum(p, q, k, i + 1))

PolyMul(p, q) ==
    IF Len(p) = 0 \/ Len(q) = 0 THEN <<>>
    ELSE [k \in 1 .. (Len(p) + Len(q) - 1) |-> ConvSum(p, q, k, 1)]

\* Horner evaluation.
RECURSIVE EvalFrom(_, _, _)
EvalFrom(p, x, k) ==
    IF k > Len(p) THEN FZero
    ELSE FAdd(p[k], FMul(x, EvalFrom(p, x, k + 1)))

PolyEval(p, x) == EvalFrom(p, x, 1)

\* ------------------------------------------------------- the circuit state
VARIABLES
    constraints,          \* Constraints: the five columns qm, ql, qr, qo, qc
    permutations,         \* HashMap<usize, usize>
    nr_wires,
    nr_constraints,
    powers_omega,         \* Vec<Scalar>
    extended_h_subgroup,  \* Vec<Scalar>
    clones,               \* the PlonkCircuit values made by clone(), in order
    issued,               \* the PreprocessedInput values setup has returned
    last_call,            \* the call just made, its arguments and how it ended
    nr_calls              \* how many calls the caller has made

vars == <<constraints, permutations, nr_wires, nr_constraints, powers_omega,
          extended_h_subgroup, clones, issued, last_call, nr_calls>>

NoWire == 0 - 1

Call(op, in_wire, out_wire, result) ==
    [op |-> op, in_wire |-> in_wire, out_wire |-> out_wire, result |-> result]

\* The fields of a PlonkCircuit, as one value.
PlonkCircuit(ext, cons, perm, wires, ncons, powers) ==
    [extended_h_subgroup |-> ext, constraints |-> cons, permutations |-> perm,
     nr_wires |-> wires, nr_constraints |-> ncons, powers_omega |-> powers]

\* The live circuit (self).
Self ==
    PlonkCircuit(extended_h_subgroup, constraints, permutations, nr_wires,
                 nr_constraints, powers_omega)

\* PlonkCircuit::init
Init ==
    /\ constraints = [qm |-> <<>>, ql |-> <<>>, qr |-> <<>>, qo |-> <<>>, qc |-> <<>>]
    /\ permutations = [k \in {} |-> k]
    /\ nr_wires = 0
    /\ nr_constraints = 0
    /\ extended_h_subgroup = <<>>
    /\ powers_omega = <<>>
    /\ clones = <<>>
    /\ issued = <<>>
    /\ last_call = Call("init", NoWire, NoWire, "ok")
    /\ nr_calls = 0

\* HashMap::insert
Insert(map, key, value) == (key :> value) @@ map

\* ------------------------------------------------------------ gate calls
\* The row a gate pushes on the five columns.
PushRow(cons, row) ==
    [qm |-> Append(cons.qm, row.qm), ql |-> Append(cons.ql, row.ql),
     qr |-> Append(cons.qr, row.qr), qo |-> Append(cons.qo, row.qo),
     qc |-> Append(cons.qc, row.qc)]

AddRow == [ql |-> FOne, qr |-> FOne, qo |-> FNeg(FOne), qm |-> FZero, qc |-> FZero]
MultRow == [qm |-> FOne, qo |-> FNeg(FOne), ql |-> FZero, qr |-> FZero, qc |-> FZero]

\* A gate that rebuilds the identity over every wire instead of extending it.
ExtendPermutationReset(perm, wires) == [k \in 0 .. (wires + 2) |-> k]

\* "we extend the permutation with the identity permutation"
ExtendPermutation(perm, wires) ==
    Insert(Insert(Insert(perm, wires, wires), wires + 1, wires + 1),
           wires + 2, wires + 2)

add_gate ==
    /\ nr_calls < MaxCalls
    /\ constraints' = PushRow(constraints, AddRow)
    /\ permutations' = ExtendPermutation(permutations, nr_wires)
    /\ nr_wires' = nr_wires + 3
    /\ nr_constraints' = nr_constraints + 1
    /\ last_call' = Call("add_gate", NoWire, NoWire, "ok")
    /\ nr_calls' = nr_calls + 1
    /\ UNCHANGED <<powers_omega, extended_h_subgroup, clones, issued>>

\* mult_gate counting two new wires for the three it maps.
mult_gate_two_wires ==
    /\ nr_calls < MaxCalls
    /\ constraints' = PushRow(constraints, MultRow)
    /\ permutations' = ExtendPermutation(permutations, nr_wires)
    /\ nr_wires' = nr_wires + 2
    /\ nr_constraints' = nr_constraints + 1
    /\ last_call' = Call("mult_gate", NoWire, NoWire, "ok")
    /\ nr_calls' = nr_calls + 1
    /\ UNCHANGED <<powers_omega, extended_h_subgroup, clones, issued>>

mult_gate ==
    /\ nr_calls < MaxCalls
    /\ constraints' = PushRow(constraints, MultRow)
    /\ permutations' = ExtendPermutation(permutations, nr_wires)
    /\ nr_wires' = nr_wires + 3
    /\ nr_constraints' = nr_constraints + 1
    /\ last_call' = Call("mult_gate", NoWire, NoWire, "ok")
    /\ nr_calls' = nr_calls + 1
    /\ UNCHANGED <<powers_omega, extended_h_subgroup, clones, issued>>

\* ---------------------------------------------------------- connect_wires
\* The assertion that opens connect_wires.
EnoughWires(in_wire, out_wire) == in_wire < nr_wires /\ out_wire < nr_wires

\* The two inserts of connect_wires: in_wire now maps to out_wire, and out_wire
\* to what in_wire mapped to.
Splice(perm, in_wire, out_wire) ==
    LET end == perm[in_wire]
    IN  Insert(Insert(perm, in_wire, out_wire), out_wire, end)

\* connect_wires with its assertion after the first insert.
ConnectAssertLate(perm, in_wire, out_wire) ==
    IF EnoughWires(in_wire, out_wire)
    THEN [permutations |-> Splice(perm, in_wire, out_wire), result |-> "ok"]
    ELSE [permutations |-> Insert(perm, in_wire, out_wire),
          result |-> "boundary_violation"]

\* What one connect_wires call does to the permutation and how it ends: the
\* assertion comes first, so a violation leaves the map as it was.
Connect(perm, in_wire, out_wire) ==
    IF EnoughWires(in_wire, out_wire)
    THEN [permutations |-> Splice(perm, in_wire, out_wire), result |-> "ok"]
    ELSE [permutations |-> perm, result |-> "boundary_violation"]

connect_wires(in_wire, out_wire) ==
    /\ nr_calls < MaxCalls
    /\ nr_calls' = nr_calls + 1
    /\ permutations' = Connect(permutations, in_wire, out_wire).permutations
    /\ last_call' = Call("connect_wires", in_wire, out_wire,
                         Connect(permutations, in_wire, out_wire).result)
    /\ UNCHANGED <<constraints, nr_wires, nr_constraints, powers_omega,
                   extended_h_subgroup, clones, issued>>

\* ------------------------------------------------------------------ setup
\* omega = g^(2^(32 - n)), g the 2^32-th root of unity of the field.
Omega(n) == pow_vartime(ROOT_OF_UNITY, 2 ^ (TWO_ADICITY - n))

\* powers_omega: n ones, [0] = omega, [i] = [i-1] * omega.
RECURSIVE PowersLoop(_, _, _, _)
PowersLoop(powers, omega, i, n) ==
    IF i >= n THEN powers
    ELSE PowersLoop(SetAt(powers, i, FMul(At(powers, i - 1), omega)), omega, i + 1, n)

PowersOmega(omega, n) == PowersLoop(SetAt(Filled(FOne, n), 0, omega), omega, 1, n)

\* assert_eq!(omega^(2^n), 1)
OrderCheck(omega, n) == pow_vartime(omega, 2 ^ n) = FOne

\* extended_h_subgroup: 3n zeros, then the three cosets.
RECURSIVE ExtendedLoop(_, _, _, _)
ExtendedLoop(ext, powers, index, n) ==
    IF index >= n THEN ext
    ELSE LET e1 == SetAt(ext, index, FMul(At(ext, index - 1), At(powers, 0)))
             e2 == SetAt(e1, index + n, FMul(At(e1, index), K1))
             e3 == SetAt(e2, index + n * 2, FMul(At(e2, index), K2))
         IN  ExtendedLoop(e3, powers, index + 1, n)

ExtendedSubgroup(powers, n) ==
    LET e0 == SetAt(Filled(FZero, n * 3), 0, At(powers, 0))
        e1 == SetAt(e0, n, FMul(K1, At(powers, 0)))
        e2 == SetAt(e1, n * 2, FMul(K2, At(powers, 0)))
    IN  ExtendedLoop(e2, powers, 1, n)

\* The wire class compute_sigma_star matches on.
WireClass(index, n) == index \div n

\* compute_sigma_star: for each (index, value) of the permutation.
SigmaValue(index, value, n, powers) ==
    LET rotated == pow_vartime(At(powers, 0), value % n)
    IN  CASE WireClass(index, n) = 0 -> rotated
          [] WireClass(index, n) = 1 -> FMul(K1, rotated)
          [] WireClass(index, n) = 2 -> FMul(K2, rotated)

\* "well, this was unexpected"
SigmaPanics(perm, n) == \E index \in DOMAIN perm : WireClass(index, n) > 2

compute_sigma_star(perm, n, powers) ==
    [index \in DOMAIN perm |-> SigmaValue(index, perm[index], n, powers)]

\* lagrange_basis without the division by (h_index - h_j).
RECURSIVE UnscaledLoop(_, _, _, _)
UnscaledLoop(lb, ext, index, j) ==
    IF j >= Len(ext) THEN lb
    ELSE IF index = j THEN UnscaledLoop(lb, ext, index, j + 1)
    ELSE UnscaledLoop(PolyMul(lb, <<FNeg(At(ext, j)), FOne>>), ext, index, j + 1)

lagrange_basis_unscaled(ext, index) == UnscaledLoop(<<FOne>>, ext, index, 0)

\* lagrange_basis: the product over every j # index of
\* (X - h_j) * (h_index - h_j)^(-1), h the extended subgroup.
RECURSIVE LagrangeLoop(_, _, _, _)
LagrangeLoop(lb, ext, index, j) ==
    IF j >= Len(ext) THEN lb
    ELSE IF index = j THEN LagrangeLoop(lb, ext, index, j + 1)
    ELSE LagrangeLoop(
            PolyMul(lb, PolyScale(<<FNeg(At(ext, j)), FOne>>,
                                  invert(FSub(At(ext, index), At(ext, j))))),
            ext, index, j + 1)

lagrange_basis(ext, index) == LagrangeLoop(<<FOne>>, ext, index, 0)

\* The unwrap of lagrange_basis fails when two points of the subgroup coincide.
LagrangePanics(ext, n) ==
    \E index \in 0 .. (n - 1) : \E j \in 0 .. (Len(ext) - 1) :
        index # j /\ ~CanInvert(FSub(At(ext, index), At(ext, j)))

\* qs_x += &lp * sigma_star[offset + i], for i in 0..n.
RECURSIVE PermutationLoop(_, _, _, _, _, _)
PermutationLoop(qs, bases, sigma_star, offset, i, n) ==
    IF i >= n THEN qs
    ELSE PermutationLoop(PolyAdd(qs, PolyScale(bases[i], sigma_star[offset + i])),
                         bases, sigma_star, offset, i + 1, n)

PermutationPolynomial(bases, sigma_star, offset, n) ==
    PermutationLoop(PolyZero(n), bases, sigma_star, offset, 0, n)

\* PolynomialEvaluationPoints(pairs).interpolate(): the polynomial of least
\* degree through the pairs (crate::polynomial, a collaborator).
RECURSIVE InterpolateLoop(_, _, _, _)
InterpolateLoop(acc, xs, ys, i) ==
    IF i >= Len(xs) THEN acc
    ELSE InterpolateLoop(
            PolyAdd(acc, PolyScale(LagrangeLoop(<<FOne>>, xs, i, 0), At(ys, i))),
            xs, ys, i + 1)

Interpolate(xs, ys) == InterpolateLoop(<<>>, xs, ys, 0)

\* The selector polynomial of one column: the pairs (powers_omega[i], column[i]).
Selector(column, powers) == Interpolate(powers, column)

\* A blinder of n + 1 coefficients, X^n - 1.
BlinderVecLinear(n) ==
    SetAt(SetAt(Filled(FZero, n + 1), 0, FNeg(FOne)), n, FOne)

\* blinder_vec: 2^n + 1 zeros, [0] = -1, [2^n] = 1.
BlinderVec(n) ==
    SetAt(SetAt(Filled(FZero, 2 ^ n + 1), 0, FNeg(FOne)), 2 ^ n, FOne)

\* A reference to the live circuit in place of a copy.
CloneShared(store, circuit) == [ref |-> 0, store |-> store]

\* self.clone(): a PlonkCircuit of its own, held by the value that stores it.
\* A reference r > 0 names clones[r]; the reference 0 would name the live circuit.
Clone(store, circuit) ==
    [ref |-> Len(store) + 1, store |-> Append(store, circuit)]

\* The circuit a reference names.
Deref(ref) == IF ref = 0 THEN Self ELSE clones[ref]

\* How far setup gets with n constraints: "ok", or the panic that ends it.
SetupResult(perm, n) ==
    IF n = 0 THEN "index_out_of_bounds"
    ELSE IF ~OrderCheck(Omega(n), n) THEN "order_check_failed"
    ELSE IF SigmaPanics(perm, n) THEN "unexpected_wire_class"
    ELSE IF LagrangePanics(ExtendedSubgroup(PowersOmega(Omega(n), n), n), n)
         THEN "inversion_of_zero"
    ELSE IF PolyEval(BlinderVec(n), Omega(n)) # FZero THEN "vanishing_check_failed"
    ELSE "ok"

\* The PreprocessedInput setup returns.
PreprocessedInput(ref, perm, cons, n, powers, ext) ==
    LET sigma_star == compute_sigma_star(perm, n, powers)
        bases == [i \in 0 .. (n - 1) |-> lagrange_basis(ext, i)]
    IN  [kzg_set |-> "Kzg10::setup()",
         blinder_polynomial |-> BlinderVec(n),
         constraints |-> ref,
         sigma_star |-> sigma_star,
         qm_x |-> Selector(cons.qm, powers),
         ql_x |-> Selector(cons.ql, powers),
         qr_x |-> Selector(cons.qr, powers),
         qo_x |-> Selector(cons.qo, powers),
         qc_x |-> Selector(cons.qc, powers),
         qs1_x |-> PermutationPolynomial(bases, sigma_star, 0, n),
         qs2_x |-> PermutationPolynomial(bases, sigma_star, n, n),
         qs3_x |-> PermutationPolynomial(bases, sigma_star, n * 2, n)]

setup ==
    /\ nr_calls < MaxCalls
    /\ nr_calls' = nr_calls + 1
    /\ last_call' = Call("setup", NoWire, NoWire, SetupResult(permutations, nr_constraints))
    /\ LET n == nr_constraints
           result == SetupResult(permutations, n)
       IN  /\ powers_omega' =
                 IF n = 0 THEN <<>> ELSE PowersOmega(Omega(n), n)
           /\ extended_h_subgroup' =
                 IF result \in {"index_out_of_bounds", "order_check_failed"}
                 THEN extended_h_subgroup
                 ELSE ExtendedSubgroup(powers_omega', n)
           /\ IF result = "ok"
              THEN LET copy == Clone(clones,
                                     PlonkCircuit(extended_h_subgroup', constraints,
                                                  permutations, nr_wires, n,
                                                  powers_omega'))
                   IN  /\ clones' = copy.store
                       /\ issued' = Append(issued,
                             PreprocessedInput(copy.ref, permutations, constraints, n,
                                               powers_omega', extended_h_subgroup'))
              ELSE UNCHANGED <<clones, issued>>
    /\ UNCHANGED <<constraints, permutations, nr_wires, nr_constraints>>

\* ------------------------------------------------------------ the caller
Wires == 0 .. MaxWire

Next ==
    \/ add_gate
    \/ mult_gate
    \/ \E in_wire \in Wires : \E out_wire \in Wires : connect_wires(in_wire, out_wire)
    \/ setup

Spec == Init /\ [][Next]_vars

\* ------------------------------------------------------------ the claims
WireIds == 0 .. (nr_wires - 1)

Issued == 1 .. Len(issued)

\* The circuit an issued PreprocessedInput holds.
CircuitOf(input) == Deref(input.constraints)

\* An issued PreprocessedInput with its circuit in place of the reference.
Contents(input) == [input EXCEPT !.constraints = Deref(input.constraints)]

Stepped == nr_calls' = nr_calls + 1

Columns == {"qm", "ql", "qr", "qo", "qc"}

RECURSIVE Follow(_, _, _)
Follow(perm, wire, steps) ==
    IF steps = 0 THEN wire ELSE Follow(perm, perm[wire], steps - 1)

\* Following perm from u comes back to u, passing v and w on the way.
OnOneCycle(perm, u, v, w) ==
    \E back \in 1 .. Cardinality(DOMAIN perm) :
        /\ Follow(perm, u, back) = u
        /\ \E k \in 0 .. (back - 1) : Follow(perm, u, k) = v
        /\ \E k \in 0 .. (back - 1) : Follow(perm, u, k) = w

\* C1: in every reachable state the permutation is total over [0, nr_wires)
\* and a bijection on it: every wire id is the target of exactly one wire.
C1_PermutationBijection ==
    /\ DOMAIN permutations = WireIds
    /\ \A wire \in WireIds :
          Cardinality({k \in DOMAIN permutations : permutations[k] = wire}) = 1

\* C2: when connect_wires(u, v) is followed at once by connect_wires(v, w), all
\* wires registered, then u, v and w are on one cycle of the permutation.
C2_ChainOnOneCycle ==
    [][(/\ Stepped
        /\ last_call.op = "connect_wires" /\ last_call.result = "ok"
        /\ last_call'.op = "connect_wires" /\ last_call'.result = "ok"
        /\ last_call'.in_wire = last_call.out_wire)
       => OnOneCycle(permutations', last_call.in_wire, last_call.out_wire,
                     last_call'.out_wire)]_vars

\* C3: a connect_wires call with a wire id >= nr_wires ends in a boundary
\* violation and leaves the permutation (its keys included), the constraint
\* table, the counts and everything else of the circuit as they were.
C3_OutOfRangeConnectChangesNothing ==
    [][(/\ Stepped
        /\ last_call'.op = "connect_wires"
        /\ (last_call'.in_wire >= nr_wires \/ last_call'.out_wire >= nr_wires))
       => /\ last_call'.result = "boundary_violation"
          /\ DOMAIN permutations' = DOMAIN permutations
          /\ UNCHANGED <<constraints, permutations, nr_wires, nr_constraints,
                         powers_omega, extended_h_subgroup, clones, issued>>]_vars

\* C3's case: a circuit with wires, some already connected, just refused a
\* connect whose first wire exists and whose second does not.
C3_Witness ==
    /\ last_call.op = "connect_wires"
    /\ last_call.result = "boundary_violation"
    /\ last_call.in_wire < nr_wires
    /\ last_call.out_wire >= nr_wires
    /\ \E k \in WireIds : permutations[k] # k

\* C4: in every reachable state nr_wires = 3 * nr_constraints.
C4_ThreeWiresPerConstraint == nr_wires = 3 * nr_constraints

\* C4's case: gates of both kinds, a connect and a setup have all been called.
C4_Witness ==
    /\ nr_constraints >= 2
    /\ Len(issued) >= 1
    /\ \E k \in WireIds : permutations[k] # k
    /\ \E k \in 1 .. nr_constraints : constraints.qm[k] = FOne
    /\ \E k \in 1 .. nr_constraints : constraints.qm[k] = FZero

\* What a gate call that pushes `row` must do: one more row, at index
\* nr_constraints, the earlier rows kept; three new wires mapped to
\* themselves, the earlier permutation entries kept.
AppendsOnly(row) ==
    /\ \A col \in Columns :
          /\ Len(constraints'[col]) = nr_constraints + 1
          /\ At(constraints'[col], nr_constraints) = row[col]
          /\ \A k \in 1 .. Len(constraints[col]) :
                constraints'[col][k] = constraints[col][k]
    /\ DOMAIN permutations' = WireIds \cup {nr_wires, nr_wires + 1, nr_wires + 2}
    /\ \A k \in {nr_wires, nr_wires + 1, nr_wires + 2} : permutations'[k] = k
    /\ \A k \in WireIds : permutations'[k] = permutations[k]

\* C5: add_gate appends exactly the row (ql, qr, qo, qm, qc) = (1, 1, -1, 0, 0)
\* and mult_gate the row (0, 0, -1, 1, 0), maps the three new wires to
\* themselves and leaves every earlier row and permutation entry unchanged.
C5_GatesAppendOnly ==
    [][/\ (Stepped /\ last_call'.op = "add_gate")
          => AppendsOnly([ql |-> 1, qr |-> 1, qo |-> MODULUS - 1, qm |-> 0, qc |-> 0])
       /\ (Stepped /\ last_call'.op = "mult_gate")
          => AppendsOnly([ql |-> 0, qr |-> 0, qo |-> MODULUS - 1, qm |-> 1, qc |-> 0])
      ]_vars

\* C5's case: a gate was just added to a circuit whose earlier wires had
\* been connected.
C5_Witness ==
    /\ last_call.op \in {"add_gate", "mult_gate"}
    /\ nr_constraints >= 2
    /\ \E k \in WireIds : permutations[k] # k

\* C6: each permutation polynomial of an issued PreprocessedInput, evaluated
\* at the i-th domain point, is the sigma-star value of the i-th wire of its
\* class: wire k * nr_constraints + i for class k.
C6_PermutationPolynomialsInterpolate ==
    \A a \in Issued :
        LET c == CircuitOf(issued[a])
            n == c.nr_constraints
        IN  \A i \in 0 .. (n - 1) :
               LET h == At(c.extended_h_subgroup, i)
               IN  /\ PolyEval(issued[a].qs1_x, h) = issued[a].sigma_star[i]
                   /\ PolyEval(issued[a].qs2_x, h) = issued[a].sigma_star[n + i]
                   /\ PolyEval(issued[a].qs3_x, h) = issued[a].sigma_star[n * 2 + i]

\* C6's case: setup has run on a circuit of two gates whose wires were
\* connected, so that sigma-star is not that of the identity.
C6_Witness ==
    \E a \in Issued :
        LET c == CircuitOf(issued[a])
        IN  /\ c.nr_constraints >= 2
            /\ \E k \in DOMAIN c.permutations : c.permutations[k] # k
            /\ issued[a].sigma_star[0] # issued[a].sigma_star[1]

\* C7: no call changes a PreprocessedInput that setup has already returned:
\* its circuit, its sigma-star and its polynomials stay as they were.
C7_IssuedInputsAreFrozen ==
    [][\A a \in Issued : Contents(issued[a])' = Contents(issued[a])]_vars

\* C7's case: two inputs were issued, and the live circuit has grown since
\* the first.
C7_Witness ==
    /\ Len(issued) >= 2
    /\ CircuitOf(issued[1]).nr_constraints < nr_constraints
    /\ CircuitOf(issued[1]).powers_omega # powers_omega

\* C8: for 1 <= nr_constraints <= the 2-adicity of the field, setup passes its
\* check of the blinder polynomial, and the blinder it returns is monic and
\* zero at every stored power of omega.
C8_BlinderVanishesOnDomain ==
    /\ (last_call.op = "setup" /\ nr_constraints \in 1 .. TWO_ADICITY)
          => last_call.result # "vanishing_check_failed"
    /\ (last_call.op = "setup" /\ last_call.result = "ok") => Len(issued) >= 1
    /\ \A a \in Issued :
          LET c == CircuitOf(issued[a])
              blinder == issued[a].blinder_polynomial
          IN  /\ Len(blinder) >= 2
              /\ blinder[Len(blinder)] = FOne
              /\ \A i \in 0 .. (c.nr_constraints - 1) :
                    PolyEval(blinder, At(c.powers_omega, i)) = FZero

\* C8's case: setup has returned on a circuit of at least two gates.
C8_Witness ==
    /\ last_call.op = "setup"
    /\ last_call.result = "ok"
    /\ nr_constraints >= 2
    /\ Len(powers_omega) = nr_constraints

\* C9: the sigma-star value of every wire is the extended-coset value of the
\* wire it is connected to, extended_h_subgroup[permutations[i]].
C9_SigmaStarIsCosetValueOfTarget ==
    \A a \in Issued :
        LET c == CircuitOf(issued[a])
        IN  \A i \in 0 .. (c.nr_wires - 1) :
               issued[a].sigma_star[i] = At(c.extended_h_subgroup, c.permutations[i])

\* C10: at setup, the wires 3g, 3g + 1, 3g + 2 allocated by the g-th gate are
\* put by sigma-star's rule in the left, right and output class, in this order.
C10_GateWiresInThreeClasses ==
    \A a \in Issued :
        LET n == CircuitOf(issued[a]).nr_constraints
        IN  \A g \in 0 .. (n - 1) :
               /\ WireClass(3 * g, n) = 0
               /\ WireClass(3 * g + 1, n) = 1
               /\ WireClass(3 * g + 2, n) = 2

=============================================================================
